---- MODULE Spec2Model ----
(***************************************************************************)
(* State-machine model of src/main.cpp (window_stress): a pool of windows  *)
(* is created inside the monitor work area, then a paced frame loop polls  *)
(* events, jitters and clamps every window's geometry, renders it, and     *)
(* sleeps; on quit all windows are destroyed and the subsystem terminated. *)
(*                                                                         *)
(* The windowing library (GLFW), the random engine and the clock are the   *)
(* environment: their results are drawn with \E from small sets.           *)
(*                                                                         *)
(* The configuration constants of main.cpp:38-43 are scaled down so that   *)
(* the state space is finite and small; their order relations are kept:    *)
(*   0 < MIN_SIZE < MAX_SIZE, 0 < JITTER_POS <= JITTER_SIZE <= MAX - MIN.  *)
(***************************************************************************)
EXTENDS Integers, Sequences, FiniteSets, TLC

----------------------------------------------------------------------------
(* Configuration (main.cpp:38-43), scaled. *)

WINDOW_COUNT == 2
TARGET_FPS == 60
MIN_SIZE == 1
MAX_SIZE == 2
JITTER_POS == 1
JITTER_SIZE == 1

(* GLFW key and action codes (GLFW/glfw3.h). *)
GLFW_RELEASE == 0
GLFW_PRESS == 1
GLFW_REPEAT == 2
GLFW_KEY_A == 65
GLFW_KEY_Q == 81
GLFW_KEY_ESCAPE == 256

----------------------------------------------------------------------------
(* Bounds of the model. *)

\* uni01 yields the values n / UDen for n in 0 .. UDen-1, all in [0, 1).
UDen == 2
\* clock ticks per second; the clock is read in whole ticks.
TicksPerSecond == 120
\* a frame body takes between 0 and MaxBody ticks.
MaxBody == 3
\* no new frame is started once the clock has reached MaxClock.
MaxClock == 3

Keys == {GLFW_KEY_A, GLFW_KEY_Q, GLFW_KEY_ESCAPE}
KeyActions == {GLFW_RELEASE, GLFW_PRESS, GLFW_REPEAT}

\* work areas the monitor query can report: one with a non-zero origin that is
\* exactly MAX_SIZE wide and a little higher, and the all-zero answer the
\* library gives when there is no monitor.
WorkAreas ==
    { [workX |-> 1, workY |-> 2, workW |-> MAX_SIZE, workH |-> MAX_SIZE + 1],
      [workX |-> 0, workY |-> 0, workW |-> 0, workH |-> 0] }

\* colours drawn for a window, as numerators over UDen.
ColorSamples == { <<0, 1, 1>>, <<1, 0, 1>> }

----------------------------------------------------------------------------
(* Pure helpers. *)

Max(a, b) == IF a > b THEN a ELSE b

\* the values of std::uniform_real_distribution<float>(0, 1), as numerators.
uni01 == 0 .. (UDen - 1)
sizeRand == MIN_SIZE .. MAX_SIZE
\* the position jitter reaches as far as the size range.
jitterPos_wide == (0 - MAX_SIZE) .. MAX_SIZE
jitterPos == (0 - JITTER_POS) .. JITTER_POS
jitterSize == (0 - JITTER_SIZE) .. JITTER_SIZE

\* (int)(u * m) for u = n / UDen and m >= 1: truncation of a non-negative value.
ScaleTrunc(n, m) == (n * m) \div UDen

\* initial coordinate: work + (int)(uni01 * std::max(1, extent - size)).
InitCoord(origin, extent, size, n) ==
    origin + ScaleTrunc(n, Max(1, extent - size))

\* std::clamp(v, lo, hi) for lo <= hi.
clamp(v, lo, hi) == IF v < lo THEN lo ELSE IF hi < v THEN hi ELSE v

\* std::clamp(v, lo, hi) has undefined behaviour when hi < lo.  The build of
\* main.cpp:11-13 enables no library assertions, so the call returns; the
\* library implementations test the two bounds in either order, so it
\* returns lo or hi.
ClampOutcomes(v, lo, hi) ==
    IF hi < lo THEN {lo, hi} ELSE { clamp(v, lo, hi) }

\* the action is not looked at: a release or a repeat of a quit key quits too.
key_callback_anyAction(quit, key, action) ==
    IF key = GLFW_KEY_ESCAPE \/ key = GLFW_KEY_Q THEN TRUE ELSE quit

\* any key press quits.
key_callback_anyKey(quit, key, action) ==
    IF action = GLFW_PRESS THEN TRUE ELSE quit

\* key_callback: the value of g_quit after the callback ran.
key_callback(quit, key, action) ==
    IF action = GLFW_PRESS
    THEN IF key = GLFW_KEY_ESCAPE \/ key = GLFW_KEY_Q THEN TRUE ELSE quit
    ELSE quit

\* const double dt_target = 1.0 / TARGET_FPS, in ticks.
dt_target == TicksPerSecond \div TARGET_FPS

\* the elapsed time is taken from the clock's origin, not from the frame's start.
SleepSec_sinceEpoch(frameEnd, start) == dt_target - frameEnd

\* double sleepSec = dt_target - elapsed.count().
SleepSec(frameEnd, start) == dt_target - (frameEnd - start)

\* the duration handed to sleep_for; 0 stands for "sleep_for is not called".
SleepFor(sleepSec) == IF sleepSec > 0 THEN sleepSec ELSE 0

----------------------------------------------------------------------------
(* State. *)

VARIABLES
    pc,          \* position of main(): start, create, loop, pass, pace, cleanup, done
    exitCode,    \* value returned by main(), -1 while it runs
    work,        \* workX, workY, workW, workH
    wins,        \* std::vector<Win>
    i,           \* index of the for loop in progress (0-based)
    g_quit,      \* static bool g_quit
    frameStart,  \* clock reading taken at the top of the frame
    now,         \* the clock
    slept,       \* duration of the last sleep_for of the frame, 0 if none
    body,        \* ticks the body of the last paced frame took
    sys,         \* the library's view of each window handle
    inited,      \* glfwInit succeeded and glfwTerminate has not run
    terminated,  \* number of glfwTerminate calls
    requests,    \* number of glfwCreateWindow calls
    failed,      \* number of the glfwCreateWindow call that returned NULL, 0 if none
    rendered,    \* handles of the windows rendered so far in the frame, in order
    calls        \* library calls and callbacks of the last step, in order

vars == << pc, exitCode, work, wins, i, g_quit, frameStart, now, slept, body,
           sys, inited, terminated, requests, failed, rendered, calls >>

Handles == 1 .. WINDOW_COUNT
NULL == 0

\* a handle the library has not created yet.
NoWindow == [created |-> FALSE, destroyed |-> 0, shouldClose |-> FALSE,
             x |-> 0, y |-> 0, w |-> 0, h |-> 0]

Init ==
    /\ pc = "start"
    /\ exitCode = -1
    /\ work = [workX |-> 0, workY |-> 0, workW |-> 0, workH |-> 0]
    /\ wins = << >>
    /\ i = 0
    /\ g_quit = FALSE
    /\ frameStart = 0
    /\ now = 0
    /\ slept = 0
    /\ body = 0
    /\ sys = [hd \in Handles |-> NoWindow]
    /\ inited = FALSE
    /\ terminated = 0
    /\ requests = 0
    /\ failed = 0
    /\ rendered = << >>
    /\ calls = << >>

----------------------------------------------------------------------------
(* Start-up: main.cpp:45-78. *)

\* the failure is reported but main goes on.
InitFail_goesOn ==
    /\ pc = "start"
    /\ pc' = "create"
    /\ i' = 0
    /\ calls' = << <<"glfwInit">> >>
    /\ UNCHANGED << exitCode, work, wins, g_quit, frameStart, now, slept, body,
                    sys, inited, terminated, requests, failed, rendered >>

\* glfwInit fails: report and return 1.
InitFail ==
    /\ pc = "start"
    /\ pc' = "done"
    /\ exitCode' = 1
    /\ calls' = << <<"glfwInit">> >>
    /\ UNCHANGED << work, wins, i, g_quit, frameStart, now, slept, body,
                    sys, inited, terminated, requests, failed, rendered >>

\* glfwInit succeeds; the work area of the primary monitor is queried.
InitOk ==
    /\ pc = "start"
    /\ \E wa \in WorkAreas : work' = wa
    /\ inited' = TRUE
    /\ pc' = "create"
    /\ i' = 0
    /\ calls' = << <<"glfwInit">>, <<"glfwGetMonitorWorkarea">> >>
    /\ UNCHANGED << exitCode, wins, g_quit, frameStart, now, slept, body,
                    sys, terminated, requests, failed, rendered >>

----------------------------------------------------------------------------
(* Window creation loop: main.cpp:84-111. *)

Win(hd, c, x, y, w, h) ==
    [handle |-> hd, r |-> c[1], g |-> c[2], b |-> c[3],
     x |-> x, y |-> y, w |-> w, h |-> h]

\* the failed window is skipped and the loop continues.
CreateFail_continues ==
    /\ pc = "create"
    /\ i < WINDOW_COUNT
    /\ \E w \in sizeRand, h \in sizeRand :
          calls' = << <<"glfwCreateWindow", w, h>> >>
    /\ requests' = requests + 1
    /\ failed' = requests + 1
    /\ i' = i + 1
    /\ UNCHANGED << pc, exitCode, work, wins, g_quit, frameStart, now, slept,
                    body, sys, inited, terminated, rendered >>

\* one iteration whose glfwCreateWindow returns NULL: report and break.
CreateFail ==
    /\ pc = "create"
    /\ i < WINDOW_COUNT
    /\ \E w \in sizeRand, h \in sizeRand :
          calls' = << <<"glfwCreateWindow", w, h>> >>
    /\ requests' = requests + 1
    /\ failed' = requests + 1
    /\ pc' = "loop"
    /\ UNCHANGED << exitCode, work, wins, i, g_quit, frameStart, now, slept,
                    body, sys, inited, terminated, rendered >>

\* one iteration whose glfwCreateWindow succeeds.
CreateOk ==
    /\ pc = "create"
    /\ i < WINDOW_COUNT
    /\ \E w \in sizeRand, h \in sizeRand, ux \in uni01, uy \in uni01,
          c \in ColorSamples :
          LET x  == InitCoord(work.workX, work.workW, w, ux)
              y  == InitCoord(work.workY, work.workH, h, uy)
              hd == requests + 1
          IN  /\ sys' = [sys EXCEPT ![hd] =
                    [created |-> TRUE, destroyed |-> 0, shouldClose |-> FALSE,
                     x |-> x, y |-> y, w |-> w, h |-> h]]
              /\ wins' = Append(wins, Win(hd, c, x, y, w, h))
              /\ calls' = << <<"glfwCreateWindow", w, h>>,
                             <<"glfwSetWindowPos", hd, x, y>>,
                             <<"glfwSetKeyCallback", hd>>,
                             <<"glfwMakeContextCurrent", hd>>,
                             <<"glfwSwapInterval", 0>> >>
    /\ requests' = requests + 1
    /\ i' = i + 1
    /\ UNCHANGED << pc, exitCode, work, g_quit, frameStart, now, slept, body,
                    inited, terminated, failed, rendered >>

\* the loop condition i < WINDOW_COUNT fails.
CreateDone ==
    /\ pc = "create"
    /\ ~ (i < WINDOW_COUNT)
    /\ pc' = "loop"
    /\ calls' = << >>
    /\ UNCHANGED << exitCode, work, wins, i, g_quit, frameStart, now, slept,
                    body, sys, inited, terminated, requests, failed, rendered >>

----------------------------------------------------------------------------
(* Main loop: main.cpp:117-165. *)

\* the events one glfwPollEvents call can deliver: at most one key event and
\* at most one close request, each addressed to one of the created windows.
KeyEvents ==
    { <<"key_callback", key, action, wn.handle>> :
          key \in Keys, action \in KeyActions,
          wn \in { wins[n] : n \in 1 .. Len(wins) } }

CloseEvents ==
    { <<"close", wn.handle>> : wn \in { wins[n] : n \in 1 .. Len(wins) } }

\* the loop never looks at the flag.
LoopCond_ignoresQuit == TRUE

\* the condition of while (!g_quit).
LoopCond == ~ g_quit

\* a quit key seen by the poll makes the frame skip its per-window pass.
FrameStart_quitSkipsPass ==
    /\ pc = "loop"
    /\ LoopCond
    /\ now < MaxClock
    /\ frameStart' = now
    /\ \E keys \in { << >> } \cup { <<e>> : e \in KeyEvents },
          closes \in { << >> } \cup { <<e>> : e \in CloseEvents } :
          /\ g_quit' = IF keys = << >> THEN g_quit
                       ELSE key_callback(g_quit, keys[1][2], keys[1][3])
          /\ sys' = IF closes = << >> THEN sys
                    ELSE [sys EXCEPT ![closes[1][2]].shouldClose = TRUE]
          /\ calls' = << <<"glfwPollEvents">> >> \o keys \o closes
    /\ pc' = IF Len(wins) = 0 \/ g_quit' THEN "pace" ELSE "pass"
    /\ i' = 0
    /\ slept' = 0
    /\ body' = 0
    /\ rendered' = << >>
    /\ UNCHANGED << exitCode, work, wins, now, inited, terminated, requests, failed >>

\* while (!g_quit) holds: take frameStart, then glfwPollEvents dispatches the
\* pending events to key_callback and to the windows' close flags.
FrameStart ==
    /\ pc = "loop"
    /\ LoopCond
    /\ now < MaxClock
    /\ frameStart' = now
    /\ \E keys \in { << >> } \cup { <<e>> : e \in KeyEvents },
          closes \in { << >> } \cup { <<e>> : e \in CloseEvents } :
          /\ g_quit' = IF keys = << >> THEN g_quit
                       ELSE key_callback(g_quit, keys[1][2], keys[1][3])
          /\ sys' = IF closes = << >> THEN sys
                    ELSE [sys EXCEPT ![closes[1][2]].shouldClose = TRUE]
          /\ calls' = << <<"glfwPollEvents">> >> \o keys \o closes
    /\ pc' = IF Len(wins) = 0 THEN "pace" ELSE "pass"
    /\ i' = 0
    /\ slept' = 0
    /\ body' = 0
    /\ rendered' = << >>
    /\ UNCHANGED << exitCode, work, wins, now, inited, terminated, requests, failed >>

\* while (!g_quit) fails: leave the loop.
LoopExit ==
    /\ pc = "loop"
    /\ ~ LoopCond
    /\ pc' = "cleanup"
    /\ i' = 0
    /\ calls' = << >>
    /\ UNCHANGED << exitCode, work, wins, g_quit, frameStart, now, slept,
                    body, sys, inited, terminated, requests, failed, rendered >>

\* the window the per-window pass is at.
Cur == wins[i + 1]

\* the closing window is skipped and the pass goes on with the next one.
ProcessClose_continues ==
    /\ pc = "pass"
    /\ i < Len(wins)
    /\ sys[Cur.handle].shouldClose
    /\ g_quit' = TRUE
    /\ i' = i + 1
    /\ pc' = IF i + 1 < Len(wins) THEN "pass" ELSE "pace"
    /\ calls' = << <<"glfwWindowShouldClose", Cur.handle>> >>
    /\ UNCHANGED << exitCode, work, wins, frameStart, now, slept, body,
                    sys, inited, terminated, requests, failed, rendered >>

\* the pass is left at the closing window but the quit flag is not set.
ProcessClose_noQuit ==
    /\ pc = "pass"
    /\ i < Len(wins)
    /\ sys[Cur.handle].shouldClose
    /\ pc' = "pace"
    /\ calls' = << <<"glfwWindowShouldClose", Cur.handle>> >>
    /\ UNCHANGED << exitCode, work, wins, i, g_quit, frameStart, now, slept,
                    body, sys, inited, terminated, requests, failed, rendered >>

\* the closing window is destroyed on the spot, inside the loop.
ProcessClose_destroysNow ==
    /\ pc = "pass"
    /\ i < Len(wins)
    /\ sys[Cur.handle].shouldClose
    /\ g_quit' = TRUE
    /\ pc' = "pace"
    /\ sys' = [sys EXCEPT ![Cur.handle].destroyed = @ + 1]
    /\ calls' = << <<"glfwWindowShouldClose", Cur.handle>>,
                   <<"glfwDestroyWindow", Cur.handle>> >>
    /\ UNCHANGED << exitCode, work, wins, i, frameStart, now, slept, body,
                    inited, terminated, requests, failed, rendered >>

\* glfwWindowShouldClose(w.handle) holds: set g_quit and break.
ProcessClose ==
    /\ pc = "pass"
    /\ i < Len(wins)
    /\ sys[Cur.handle].shouldClose
    /\ g_quit' = TRUE
    /\ pc' = "pace"
    /\ calls' = << <<"glfwWindowShouldClose", Cur.handle>> >>
    /\ UNCHANGED << exitCode, work, wins, i, frameStart, now, slept, body,
                    sys, inited, terminated, requests, failed, rendered >>

\* one test guards both requests.
ApplyCalls_coupled(wn, newX, newY, newW, newH) ==
    IF newW # wn.w \/ newH # wn.h \/ newX # wn.x \/ newY # wn.y
    THEN << <<"glfwSetWindowSize", wn.handle, newW, newH>>,
            <<"glfwSetWindowPos", wn.handle, newX, newY>> >>
    ELSE << >>

\* the reposition request is issued before the resize request.
ApplyCalls_posFirst(wn, newX, newY, newW, newH) ==
    (IF newX # wn.x \/ newY # wn.y
     THEN << <<"glfwSetWindowPos", wn.handle, newX, newY>> >> ELSE << >>)
    \o
    (IF newW # wn.w \/ newH # wn.h
     THEN << <<"glfwSetWindowSize", wn.handle, newW, newH>> >> ELSE << >>)

\* the resize request is issued only when the width changed.
ApplyCalls_sizeOnlyIfWidth(wn, newX, newY, newW, newH) ==
    (IF newW # wn.w
     THEN << <<"glfwSetWindowSize", wn.handle, newW, newH>> >> ELSE << >>)
    \o
    (IF newX # wn.x \/ newY # wn.y
     THEN << <<"glfwSetWindowPos", wn.handle, newX, newY>> >> ELSE << >>)

\* the calls of main.cpp:142-155 for window wn moving to (newX, newY, newW, newH).
ApplyCalls(wn, newX, newY, newW, newH) ==
    (IF newW # wn.w \/ newH # wn.h
     THEN << <<"glfwSetWindowSize", wn.handle, newW, newH>> >> ELSE << >>)
    \o
    (IF newX # wn.x \/ newY # wn.y
     THEN << <<"glfwSetWindowPos", wn.handle, newX, newY>> >> ELSE << >>)

RenderCalls(wn) ==
    << <<"glfwMakeContextCurrent", wn.handle>>,
       <<"glViewport", 0, 0, wn.w, wn.h>>,
       <<"glClearColor", wn.r, wn.g, wn.b>>,
       <<"glClear">>,
       <<"glfwSwapBuffers", wn.handle>> >>

\* the library applies the size and position requests among cs to its windows.
ApplyToSys(s, cs) ==
    [hd \in Handles |->
        LET sz == { n \in 1 .. Len(cs) : cs[n][1] = "glfwSetWindowSize" /\ cs[n][2] = hd }
            ps == { n \in 1 .. Len(cs) : cs[n][1] = "glfwSetWindowPos" /\ cs[n][2] = hd }
            s1 == IF sz = {} THEN s[hd]
                  ELSE LET n == CHOOSE n \in sz : TRUE
                       IN  [s[hd] EXCEPT !.w = cs[n][3], !.h = cs[n][4]]
        IN  IF ps = {} THEN s1
            ELSE LET n == CHOOSE n \in ps : TRUE
                 IN  [s1 EXCEPT !.x = cs[n][3], !.y = cs[n][4]]]

\* the record is rebuilt from the new geometry and the colour is lost.
WriteBack_resetsColor(wn, newX, newY, newW, newH) ==
    [wn EXCEPT !.w = newW, !.h = newH, !.x = newX, !.y = newY,
               !.r = 0, !.g = 0, !.b = 0]

\* w.w = newW; w.h = newH; w.x = newX; w.y = newY.
WriteBack(wn, newX, newY, newW, newH) ==
    [wn EXCEPT !.w = newW, !.h = newH, !.x = newX, !.y = newY]

\* the jitter is added and the result is stored without clamping.
NewSizes_unclamped(cur) == { cur + d : d \in jitterSize }

\* int newW = std::clamp(w.w + dw, MIN_SIZE, MAX_SIZE) over the draws dw of
\* jitterSize: the sizes one step can produce from cur.
NewSizes(cur) == { clamp(cur + d, MIN_SIZE, MAX_SIZE) : d \in jitterSize }

\* int newX = std::clamp(w.x + dx, lo, hi) over the draws dx of jitterPos.
NewCoords(cur, lo, hi) ==
    UNION { ClampOutcomes(cur + d, lo, hi) : d \in jitterPos }

\* one iteration of the per-window pass for a window that stays open:
\* jitter, clamp, conditional resize / reposition, write-back, render.
ProcessWindow ==
    /\ pc = "pass"
    /\ i < Len(wins)
    /\ ~ sys[Cur.handle].shouldClose
    /\ \E newW \in NewSizes(Cur.w), newH \in NewSizes(Cur.h) :
          \E newX \in NewCoords(Cur.x, work.workX, work.workX + work.workW - newW),
             newY \in NewCoords(Cur.y, work.workY, work.workY + work.workH - newH) :
             LET upd == WriteBack(Cur, newX, newY, newW, newH)
                 app == ApplyCalls(Cur, newX, newY, newW, newH)
             IN  /\ wins' = [wins EXCEPT ![i + 1] = upd]
                 /\ sys' = ApplyToSys(sys, app)
                 /\ calls' = << <<"glfwWindowShouldClose", Cur.handle>> >>
                             \o app \o RenderCalls(upd)
    /\ i' = i + 1
    /\ rendered' = Append(rendered, Cur.handle)
    /\ pc' = IF i + 1 < Len(wins) THEN "pass" ELSE "pace"
    /\ UNCHANGED << exitCode, work, g_quit, frameStart, now, slept, body,
                    inited, terminated, requests, failed >>

\* frame pacing: main.cpp:159-164.
Pace ==
    /\ pc = "pace"
    /\ \E d \in 0 .. MaxBody :
          LET frameEnd == now + d
              sleepSec == SleepSec(frameEnd, frameStart)
          IN  /\ body' = d
              /\ slept' = SleepFor(sleepSec)
              /\ now' = frameEnd + SleepFor(sleepSec)
              /\ calls' = IF SleepFor(sleepSec) > 0
                          THEN << <<"sleep_for", SleepFor(sleepSec)>> >>
                          ELSE << >>
    /\ pc' = "loop"
    /\ UNCHANGED << exitCode, work, wins, i, g_quit, frameStart, sys, inited,
                    terminated, requests, failed, rendered >>

----------------------------------------------------------------------------
(* Cleanup: main.cpp:167-172. *)

\* a window that asked to close is taken for already destroyed.
Destroy_skipsClosing ==
    /\ pc = "cleanup"
    /\ i < Len(wins)
    /\ IF Cur.handle # NULL /\ ~ sys[Cur.handle].shouldClose
       THEN /\ sys' = [sys EXCEPT ![Cur.handle].destroyed = @ + 1]
            /\ calls' = << <<"glfwDestroyWindow", Cur.handle>> >>
       ELSE /\ sys' = sys
            /\ calls' = << >>
    /\ i' = i + 1
    /\ UNCHANGED << pc, exitCode, work, wins, g_quit, frameStart, now, slept,
                    body, inited, terminated, requests, failed, rendered >>

\* one iteration of the cleanup loop.
Destroy ==
    /\ pc = "cleanup"
    /\ i < Len(wins)
    /\ IF Cur.handle # NULL
       THEN /\ sys' = [sys EXCEPT ![Cur.handle].destroyed = @ + 1]
            /\ calls' = << <<"glfwDestroyWindow", Cur.handle>> >>
       ELSE /\ sys' = sys
            /\ calls' = << >>
    /\ i' = i + 1
    /\ UNCHANGED << pc, exitCode, work, wins, g_quit, frameStart, now, slept,
                    body, inited, terminated, requests, failed, rendered >>

\* glfwTerminate and return 0.
Terminate ==
    /\ pc = "cleanup"
    /\ ~ (i < Len(wins))
    /\ terminated' = terminated + 1
    /\ inited' = FALSE
    /\ exitCode' = 0
    /\ pc' = "done"
    /\ calls' = << <<"glfwTerminate">> >>
    /\ UNCHANGED << work, wins, i, g_quit, frameStart, now, slept, body, sys,
                    requests, failed, rendered >>

----------------------------------------------------------------------------

Next ==
    \/ InitFail
    \/ InitOk
    \/ CreateFail
    \/ CreateOk
    \/ CreateDone
    \/ FrameStart
    \/ LoopExit
    \/ ProcessClose
    \/ ProcessWindow
    \/ Pace
    \/ Destroy
    \/ Terminate

Spec == Init /\ [][Next]_vars

----------------------------------------------------------------------------
(* Properties. *)

Records == { wins[n] : n \in 1 .. Len(wins) }

\* the last step issued a call named op.
Called(op) == \E n \in 1 .. Len(calls) : calls[n][1] = op

\* C1: every window record has its width and its height within
\* [MIN_SIZE, MAX_SIZE], from its creation on and after every frame.
SizeBounds ==
    \A wn \in Records :
        /\ MIN_SIZE <= wn.w /\ wn.w <= MAX_SIZE
        /\ MIN_SIZE <= wn.h /\ wn.h <= MAX_SIZE

\* a frame has resized a window to the largest width and the smallest height.
SizeBoundsWitness ==
    /\ pc = "pace"
    /\ Called("glfwSetWindowSize")
    /\ \E wn \in Records : wn.w = MAX_SIZE /\ wn.h = MIN_SIZE

\* C2: every window rectangle lies inside the work area the monitor query
\* reported, whatever that work area is:
\* workX <= x <= workX + workW - width and workY <= y <= workY + workH - height.
Containment ==
    \A wn \in Records :
        /\ work.workX <= wn.x /\ wn.x <= work.workX + work.workW - wn.w
        /\ work.workY <= wn.y /\ wn.y <= work.workY + work.workH - wn.h

\* C3: no step changes the colour of an existing window record.
ColorImmutable ==
    [][ /\ Len(wins') >= Len(wins)
        /\ \A n \in 1 .. Len(wins) :
              /\ wins'[n].r = wins[n].r
              /\ wins'[n].g = wins[n].g
              /\ wins'[n].b = wins[n].b ]_vars

\* a second frame has just moved and resized a window whose colour has a
\* non-zero red channel.
ColorImmutableWitness ==
    /\ pc = "pace"
    /\ frameStart > 0
    /\ Called("glfwSetWindowSize")
    /\ Called("glfwSetWindowPos")
    /\ \E wn \in Records : wn.handle = calls[1][2] /\ wn.r = 1

\* C4: a processed window gets a resize request exactly when its new size
\* differs from the stored one, and a reposition request exactly when its new
\* position differs from the stored one, each decided on its own.
NoOpSuppressed ==
    [][ (pc = "pass" /\ i' = i + 1) =>
          LET old == wins[i + 1]
              new == wins'[i + 1]
              sz  == { n \in 1 .. Len(calls') : calls'[n][1] = "glfwSetWindowSize" }
              ps  == { n \in 1 .. Len(calls') : calls'[n][1] = "glfwSetWindowPos" }
          IN  /\ (sz # {}) <=> (new.w # old.w \/ new.h # old.h)
              /\ (ps # {}) <=> (new.x # old.x \/ new.y # old.y)
              /\ \A n \in sz : calls'[n] = <<"glfwSetWindowSize", old.handle, new.w, new.h>>
              /\ \A n \in ps : calls'[n] = <<"glfwSetWindowPos", old.handle, new.x, new.y>>
              /\ Cardinality(sz) <= 1 /\ Cardinality(ps) <= 1 ]_vars

\* a window was repositioned without being resized, and rendered.
NoOpSuppressedWitness ==
    /\ pc \in {"pass", "pace"}
    /\ Called("glfwSetWindowPos")
    /\ ~ Called("glfwSetWindowSize")
    /\ Called("glfwSwapBuffers")

\* a quit condition has fired: the flag is set or a window asked to close.
QuitFired == g_quit \/ \E hd \in Handles : sys[hd].shouldClose

\* C5: once a quit condition has fired no further frame is started: the frame
\* in progress runs to its pacing step and the loop condition then fails.
QuitPropagation ==
    [][ /\ (QuitFired /\ pc = "loop") => pc' = "cleanup"
        /\ (QuitFired /\ pc \in {"pass", "pace"}) => pc' \in {"pass", "pace", "loop"}
        /\ (pc \in {"pass", "pace"} /\ pc' = "loop") =>
              (QuitFired => g_quit') ]_vars

\* the quit key was pressed in the second frame, that frame processed every
\* window, and the loop has exited.
QuitPropagationWitness ==
    /\ pc = "cleanup"
    /\ i = 0
    /\ g_quit
    /\ frameStart > 0
    /\ Len(wins) = WINDOW_COUNT
    /\ \A hd \in Handles : ~ sys[hd].shouldClose

\* C6: no window is destroyed twice, none is destroyed that was not created or
\* before the loop has exited, and when main returns 0 every created window,
\* the closing ones included, has been destroyed exactly once.
DestroyOnce ==
    /\ \A hd \in Handles :
          /\ sys[hd].destroyed <= 1
          /\ sys[hd].destroyed = 1 => sys[hd].created /\ pc \in {"cleanup", "done"}
          /\ sys[hd].created <=> \E wn \in Records : wn.handle = hd
    /\ (pc = "done" /\ exitCode = 0) =>
          \A hd \in Handles : sys[hd].destroyed = IF sys[hd].created THEN 1 ELSE 0

\* main returned 0 with a reduced pool whose only window had asked to close.
DestroyOnceWitness ==
    /\ pc = "done"
    /\ exitCode = 0
    /\ failed = WINDOW_COUNT
    /\ sys[1].shouldClose
    /\ sys[1].destroyed = 1

\* C7: when the k-th creation request fails the pool holds the k-1 windows
\* created before it, in creation order, no further request is made, and main
\* goes on to the loop.
DegradedInit ==
    /\ \A n \in 1 .. Len(wins) : wins[n].handle = n
    /\ requests <= WINDOW_COUNT
    /\ failed # 0 =>
          /\ failed \in 1 .. WINDOW_COUNT
          /\ requests = failed
          /\ Len(wins) = failed - 1
          /\ pc \in {"loop", "pass", "pace", "cleanup", "done"}
          /\ exitCode \in {-1, 0}
    /\ (failed = 0 /\ pc \in {"loop", "pass", "pace", "cleanup"}) =>
          Len(wins) = WINDOW_COUNT /\ requests = WINDOW_COUNT

\* the last request failed and a frame has rendered the reduced pool.
DegradedInitWitness ==
    /\ pc = "pace"
    /\ failed = WINDOW_COUNT
    /\ Len(wins) = WINDOW_COUNT - 1
    /\ i = Len(wins)
    /\ Called("glfwSwapBuffers")

\* C8: the pacing step sleeps max(0, dt_target - body) where body is the time
\* this frame's body took: the whole period after an instant body, nothing
\* after a body of a period or more, never a negative duration.
Pacing ==
    [][ pc = "pace" =>
          /\ slept' = Max(0, dt_target - body')
          /\ slept' >= 0
          /\ body' = 0 => slept' = dt_target
          /\ body' >= dt_target => slept' = 0
          /\ calls' = IF slept' > 0 THEN << <<"sleep_for", slept'>> >> ELSE << >>
          /\ now' = now + body' + slept' ]_vars

\* a later frame whose body took part of the period slept for the rest.
PacingWitness ==
    /\ pc = "loop"
    /\ frameStart > 0
    /\ body > 0
    /\ slept = dt_target - body
    /\ Called("sleep_for")

\* C9: when glfwInit fails main returns 1 at once: no window was requested,
\* no frame ran, nothing was destroyed or terminated; a main that got past
\* glfwInit returns only 0, after the loop has exited.
InitFailureFatal ==
    /\ (pc # "start" /\ ~ inited /\ terminated = 0) =>
          /\ pc = "done" /\ exitCode = 1
          /\ requests = 0 /\ wins = << >> /\ now = 0 /\ ~ g_quit
          /\ calls = << <<"glfwInit">> >>
          /\ \A hd \in Handles : ~ sys[hd].created /\ sys[hd].destroyed = 0
    /\ exitCode = 1 => ~ inited /\ terminated = 0
    /\ (inited \/ terminated > 0) => exitCode = IF pc = "done" THEN 0 ELSE -1
    /\ terminated > 0 => pc = "done" /\ g_quit

\* glfwInit failed and main has returned 1.
InitFailureFatalWitness ==
    /\ pc = "done"
    /\ exitCode = 1
    /\ ~ inited

\* the last step delivered a press of Q or Escape to key_callback.
QuitKeyPressed ==
    \E n \in 1 .. Len(calls) :
        /\ calls[n][1] = "key_callback"
        /\ calls[n][2] \in {GLFW_KEY_Q, GLFW_KEY_ESCAPE}
        /\ calls[n][3] = GLFW_PRESS

\* the last step was a close check on a window that had asked to close.
CloseReported ==
    /\ Len(calls) = 1
    /\ calls[1][1] = "glfwWindowShouldClose"
    /\ sys[calls[1][2]].shouldClose

\* C10: the loop is left only with the quit flag set; the flag is set only by
\* a press of the quit key or by a window's close request and is never
\* cleared; while it is clear the loop head can only start another frame.
RunsUntilQuit ==
    /\ [](pc \in {"cleanup", "done"} /\ exitCode # 1 => g_quit)
    /\ [][ /\ g_quit => g_quit'
           /\ (~ g_quit /\ g_quit') => (QuitKeyPressed' \/ CloseReported')
           /\ (pc = "loop" /\ ~ g_quit) => pc' \in {"pass", "pace"}
           /\ (pc = "loop" /\ pc' = "cleanup") => g_quit ]_vars

\* a close request ended the loop and main returned 0.
RunsUntilQuitWitness ==
    /\ pc = "done"
    /\ exitCode = 0
    /\ g_quit
    /\ \E hd \in Handles : sys[hd].shouldClose

\* the handles of the first n records, in list order.
FirstHandles(n) == [k \in 1 .. n |-> wins[k].handle]

\* C11: when the pass reaches a window that asked to close, the quit flag is
\* set and the pass ends there: the windows before it have been updated and
\* rendered in this frame, it and the windows after it get no request and no
\* render and their records stay as they are until the loop is left.
CloseEndsPass ==
    [][ /\ (pc = "pass" /\ sys[wins[i + 1].handle].shouldClose) =>
              /\ g_quit'
              /\ pc' = "pace" /\ i' = i
              /\ wins' = wins /\ sys' = sys
              /\ calls' = << <<"glfwWindowShouldClose", wins[i + 1].handle>> >>
              /\ rendered' = rendered
              /\ rendered = FirstHandles(i)
        /\ (pc \in {"pace", "loop"} /\ g_quit) =>
              /\ wins' = wins /\ sys' = sys /\ rendered' = rendered
              /\ pc' \in {"loop", "cleanup"} ]_vars

\* the second of two windows asked to close: the first was rendered, the pass
\* stopped at the second.
CloseEndsPassWitness ==
    /\ pc = "pace"
    /\ g_quit
    /\ Len(wins) = 2
    /\ i = 1
    /\ rendered = << wins[1].handle >>
    /\ sys[wins[2].handle].shouldClose
    /\ calls = << <<"glfwWindowShouldClose", wins[2].handle>> >>

\* no window has asked to close.
NoCloseRequest == \A hd \in Handles : ~ sys[hd].shouldClose

\* C12: a quit key delivered by the poll does not cut the frame short: the
\* pass still starts, every window that has not asked to close is still
\* processed, the pacing step still runs, and the loop is then left without
\* another poll.
QuitKeyKeepsFrame ==
    /\ [][ /\ (pc = "loop" /\ pc' # "cleanup") =>
                 pc' = IF Len(wins) = 0 THEN "pace" ELSE "pass"
           /\ (pc = "pass" /\ g_quit /\ ~ sys[wins[i + 1].handle].shouldClose) =>
                 /\ i' = i + 1
                 /\ rendered' = Append(rendered, wins[i + 1].handle)
                 /\ \E n \in 1 .. Len(calls') : calls'[n][1] = "glfwSwapBuffers"
           /\ (pc = "pace" /\ g_quit) =>
                 /\ pc' = "loop"
                 /\ now' = now + body' + slept'
                 /\ slept' = Max(0, dt_target - body')
           /\ (pc = "loop" /\ g_quit) =>
                 /\ pc' = "cleanup"
                 /\ calls' = << >> ]_vars
    /\ []((pc \in {"pace", "loop"} /\ g_quit /\ NoCloseRequest) =>
              rendered = FirstHandles(Len(wins)))

\* the quit key was pressed, the frame went on to render the whole pool and to
\* sleep, and the loop head is reached with the flag set.
QuitKeyKeepsFrameWitness ==
    /\ pc = "loop"
    /\ g_quit
    /\ NoCloseRequest
    /\ Len(wins) = WINDOW_COUNT
    /\ rendered = FirstHandles(WINDOW_COUNT)
    /\ slept > 0

\* the key event (key, action) is a press of Q or of Escape.
IsQuitPress(key, action) ==
    action = GLFW_PRESS /\ key \in {GLFW_KEY_Q, GLFW_KEY_ESCAPE}

\* C13: a key event sets the quit flag exactly when it is a press of Q or of
\* Escape, whichever window receives it; any other key event leaves the flag
\* as it was, and no key event changes a window record.
KeyListener ==
    /\ [](\A q \in BOOLEAN, key \in Keys, action \in KeyActions :
              key_callback(q, key, action) = (q \/ IsQuitPress(key, action)))
    /\ [][ (pc = "loop" /\ pc' # "cleanup") =>
              LET ks == { n \in 1 .. Len(calls') : calls'[n][1] = "key_callback" }
              IN  /\ wins' = wins
                  /\ g_quit' = (g_quit \/ \E n \in ks :
                                    IsQuitPress(calls'[n][2], calls'[n][3]))
                  /\ \A n \in ks : calls'[n][4] \in { wins[k].handle : k \in 1 .. Len(wins) } ]_vars

\* the second window received a press of Escape and the flag is set.
KeyListenerWitness ==
    /\ pc = "pass"
    /\ i = 0
    /\ Len(wins) = 2
    /\ g_quit
    /\ calls = << <<"glfwPollEvents">>,
                  <<"key_callback", GLFW_KEY_ESCAPE, GLFW_PRESS, wins[2].handle>> >>

\* the record wn has the geometry the creation loop can draw: sizes within
\* [MIN_SIZE, MAX_SIZE], x in [workX, workX + max(1, workW - w)) and y alike.
InDrawnRange(wn) ==
    /\ wn.w \in MIN_SIZE .. MAX_SIZE
    /\ wn.h \in MIN_SIZE .. MAX_SIZE
    /\ work.workX <= wn.x /\ wn.x < work.workX + Max(1, work.workW - wn.w)
    /\ work.workY <= wn.y /\ wn.y < work.workY + Max(1, work.workH - wn.h)

\* the rectangle of wn lies inside the work area.
InsideWorkArea(wn) ==
    /\ work.workX <= wn.x /\ wn.x + wn.w <= work.workX + work.workW
    /\ work.workY <= wn.y /\ wn.y + wn.h <= work.workY + work.workH

\* C14: a record appended by the creation loop has its geometry in the drawn
\* ranges, so that its rectangle lies inside the work area, and stores exactly
\* the size given to glfwCreateWindow and the position given to
\* glfwSetWindowPos.
InitialLayout ==
    [][ (pc = "create" /\ Len(wins') = Len(wins) + 1) =>
          LET wn == wins'[Len(wins')]
          IN  /\ InDrawnRange(wn)
              /\ InsideWorkArea(wn)
              /\ calls'[1] = <<"glfwCreateWindow", wn.w, wn.h>>
              /\ calls'[2] = <<"glfwSetWindowPos", wn.handle, wn.x, wn.y>> ]_vars

\* the draws kept for the liveness check: they take every branch of main and
\* leave out draws that only repeat one. Every window gets the same colour, a
\* key event goes to the first window and is a press or a release, and the
\* body of a frame takes either no time or the longest time.
LiveEnv ==
    /\ \A n \in 1 .. Len(wins) : <<wins[n].r, wins[n].g, wins[n].b>> = <<0, 1, 1>>
    /\ \A n \in 1 .. Len(calls) :
          calls[n][1] = "key_callback"
              => calls[n][3] # GLFW_REPEAT /\ calls[n][4] = wins[1].handle
    /\ body \in {0, MaxBody}

LiveNext == Next /\ LiveEnv'

\* main is a single thread and every library call and sleep returns: whenever
\* a step of main is possible, main takes one.
LiveSpec == Init /\ [][LiveNext]_vars /\ WF_vars(LiveNext)

\* main has returned 0 after destroying every created window and terminating
\* the library.
CleanExit ==
    /\ pc = "done"
    /\ exitCode = 0
    /\ terminated = 1
    /\ ~ inited
    /\ \A hd \in Handles : sys[hd].created => sys[hd].destroyed = 1

\* C15: once a quit key press or a close request has been delivered, main
\* eventually leaves the loop, destroys its windows, terminates the library
\* and returns.
TerminatesOnQuit == QuitFired ~> CleanExit

\* a close request was delivered to a full pool and main has exited cleanly.
TerminatesOnQuitWitness ==
    /\ CleanExit
    /\ Len(wins) = WINDOW_COUNT
    /\ ~ NoCloseRequest

----------------------------------------------------------------------------
\* the calls between the close check and the render of a window that moves
\* from record old to record new: resize first, reposition second, each optional.
RequestOrders(old, new) ==
    LET size == <<"glfwSetWindowSize", old.handle, new.w, new.h>>
        pos  == <<"glfwSetWindowPos", old.handle, new.x, new.y>>
    IN  { << >>, <<size>>, <<pos>>, <<size, pos>> }

\* C16: in every frame the poll comes before any window is processed (the
\* pass is entered only by the step that polls, with nothing processed yet);
\* each iteration starts with the close check of the window at the list
\* position it has reached; a processed window then gets the resize request
\* (if any), the reposition request (if any) and last the render, i.e. make
\* current, viewport, clear colour, clear, present, with the viewport of the
\* record's just-updated size and its unchanged colour; the windows are
\* processed in list order.
CallOrdering ==
    [][ /\ (pc' = "pass" /\ pc # "pass")
            => /\ pc = "loop"
               /\ calls'[1] = <<"glfwPollEvents">>
               /\ \A n \in 2 .. Len(calls') : calls'[n][1] \in {"key_callback", "close"}
               /\ i' = 0
               /\ rendered' = << >>
        /\ (\E n \in 1 .. Len(calls') : calls'[n][1] = "glfwWindowShouldClose")
            => /\ pc = "pass"
               /\ calls'[1] = <<"glfwWindowShouldClose", wins[i + 1].handle>>
               /\ rendered = FirstHandles(i)
        /\ (pc = "pass" /\ i' = i + 1)
            => LET old == wins[i + 1]
                   new == wins'[i + 1]
                   n   == Len(calls')
               IN  /\ n >= 6
                   /\ SubSeq(calls', 2, n - 5) \in RequestOrders(old, new)
                   /\ SubSeq(calls', n - 4, n)
                        = << <<"glfwMakeContextCurrent", old.handle>>,
                             <<"glViewport", 0, 0, new.w, new.h>>,
                             <<"glClearColor", old.r, old.g, old.b>>,
                             <<"glClear">>,
                             <<"glfwSwapBuffers", old.handle>> >>
                   /\ rendered' = FirstHandles(i + 1)
      ]_vars

\* a full pass has ended with a window that was resized and repositioned.
CallOrderingWitness ==
    /\ pc = "pace"
    /\ Len(wins) = WINDOW_COUNT
    /\ rendered = FirstHandles(WINDOW_COUNT)
    /\ Len(calls) = 8
    /\ calls[2][1] = "glfwSetWindowSize"
    /\ calls[3][1] = "glfwSetWindowPos"

----------------------------------------------------------------------------
Abs(a) == IF a < 0 THEN 0 - a ELSE a

\* the work area holds a window of the largest size.
RoomyWorkArea == work.workW >= MAX_SIZE /\ work.workH >= MAX_SIZE

----------------------------------------------------------------------------
\* C18: with a library that applies every size and position request exactly,
\* the x, y, w, h of each record equal the geometry last requested for its
\* window (by glfwCreateWindow, the first glfwSetWindowPos or a later
\* request), in every frame; a skipped request never lets the two diverge.
RecordMatchesSys ==
    \A wn \in Records :
        /\ sys[wn.handle].created
        /\ sys[wn.handle].x = wn.x
        /\ sys[wn.handle].y = wn.y
        /\ sys[wn.handle].w = wn.w
        /\ sys[wn.handle].h = wn.h

\* in a frame after the first, a window was repositioned with the resize
\* request skipped.
RecordMatchesSysWitness ==
    /\ frameStart > 0
    /\ pc \in {"pass", "pace"}
    /\ i >= 1
    /\ Called("glfwSetWindowPos")
    /\ ~ Called("glfwSetWindowSize")
    /\ sys[wins[i].handle].y = wins[i].y

----------------------------------------------------------------------------
\* the library calls whose first argument is a window.
WindowOps ==
    { "glfwSetWindowPos", "glfwSetKeyCallback", "glfwMakeContextCurrent",
      "glfwWindowShouldClose", "glfwSetWindowSize", "glfwSwapBuffers",
      "glfwDestroyWindow", "close" }

\* no window has been destroyed.
NoneDestroyed == \A hd \in Handles : sys[hd].destroyed = 0

\* C19: from the first frame to the exit of the loop the pool keeps its
\* records and no window is destroyed, a closing window included; a destroy
\* call is made only in the cleanup after the loop; no call is made on a
\* window that is already destroyed and nothing is polled or rendered once a
\* window is destroyed; glfwTerminate is called once, after the destroy call
\* of every created window, and ends the program.
TeardownOrdering ==
    [][ /\ pc \in {"loop", "pass", "pace"}
            => /\ Len(wins') = Len(wins)
               /\ \A n \in 1 .. Len(wins) : wins'[n].handle = wins[n].handle
               /\ \A hd \in Handles :
                     /\ sys'[hd].destroyed = sys[hd].destroyed
                     /\ sys'[hd].created = sys[hd].created
               /\ NoneDestroyed
        /\ \A n \in 1 .. Len(calls') :
              /\ calls'[n][1] = "glfwDestroyWindow" => pc = "cleanup"
              /\ calls'[n][1] \in WindowOps => sys[calls'[n][2]].destroyed = 0
              /\ calls'[n][1] = "key_callback" => sys[calls'[n][4]].destroyed = 0
              /\ calls'[n][1] \in {"glfwPollEvents", "glViewport", "glClear",
                                   "glClearColor", "glfwCreateWindow"}
                    => NoneDestroyed
              /\ calls'[n][1] = "glfwTerminate"
                    => /\ terminated = 0
                       /\ pc = "cleanup"
                       /\ pc' = "done"
                       /\ \A hd \in Handles : sys[hd].created => sys[hd].destroyed = 1
        /\ terminated' <= 1
        /\ (pc' = "done" /\ exitCode' = 0) => terminated' = 1
      ]_vars

\* the program has ended after a full pool ran and its second window asked to
\* close: that window stayed in the list and glfwTerminate was the last call.
TeardownOrderingWitness ==
    /\ pc = "done"
    /\ terminated = 1
    /\ calls = << <<"glfwTerminate">> >>
    /\ Len(wins) = WINDOW_COUNT
    /\ sys[wins[WINDOW_COUNT].handle].shouldClose
    /\ rendered = FirstHandles(WINDOW_COUNT - 1)
    /\ \A hd \in Handles : sys[hd].destroyed = 1

====
